---- MODULE Spec2Model ----
(***************************************************************************)
(* Model of the static site generator in src/main.py.                      *)
(*                                                                         *)
(* Text is modelled at the character level: a Python str is a sequence of  *)
(* one-character strings, so that slicing (out_html[4:ix]), str.find,      *)
(* str.replace, str.strip and the regular-expression substitutions act as  *)
(* they do in the script.  Positions are 1-based here (0 = "not found"),   *)
(* where Python's are 0-based (-1 = "not found").                          *)
(*                                                                         *)
(* A Python dict is a sequence of <<key, value>> pairs in insertion order  *)
(* (dicts keep insertion order, and the substitution loop of lines 109-112 *)
(* iterates in it).                                                        *)
(***************************************************************************)
EXTENDS Integers, Sequences, FiniteSets, TLC

(***************************************************************************)
(* Bounds of the model.                                                    *)
(***************************************************************************)
\* most posts found by glob("./content/posts/*.md") in one run
MaxPosts == 2
\* longest metadata block (characters) of the metadata round-trip inputs
MaxMetaLen == 6
\* longest literal code text (characters) of the escape/decode inputs
MaxCodeLen == 4
\* longest page (tokens: markers and characters) of the conditional inputs
MaxPageLen == 5

(***************************************************************************)
(* str helpers                                                             *)
(***************************************************************************)
\* all sequences over S of length 0..n
RECURSIVE SeqsUpTo(_, _)
SeqsUpTo(S, n) ==
    IF n = 0 THEN {<<>>}
    ELSE LET Shorter == SeqsUpTo(S, n - 1)
         IN  Shorter \cup {Append(s, c) : s \in {t \in Shorter : Len(t) = n - 1}, c \in S}

\* concatenation of a sequence of strings
RECURSIVE Concat(_)
Concat(ss) == IF ss = <<>> THEN <<>> ELSE Head(ss) \o Concat(Tail(ss))

\* s[i-1:i-1+len(p)] == p
StartsWithAt(s, i, p) ==
    /\ i >= 1
    /\ i + Len(p) - 1 <= Len(s)
    /\ SubSeq(s, i, i + Len(p) - 1) = p

\* s[i-1:] in Python terms
From(s, i) == SubSeq(s, i, Len(s))

Min(S) == CHOOSE j \in S : \A k \in S : j <= k

\* str.find(p) searching from position i: the lowest position >= i, 0 if none
FindFrom(s, p, i) ==
    LET Hits == {j \in i..(Len(s) - Len(p) + 1) : StartsWithAt(s, j, p)}
    IN  IF Hits = {} THEN 0 ELSE Min(Hits)

\* str.find(p)
Find(s, p) == FindFrom(s, p, 1)

\* p in s
Contains(s, p) == Find(s, p) # 0

\* str.replace(old, new), old non-empty: leftmost, non-overlapping, all
RECURSIVE Replace(_, _, _)
Replace(s, old, new) ==
    LET p == Find(s, old)
    IN  IF p = 0 THEN s
        ELSE SubSeq(s, 1, p - 1) \o new \o Replace(From(s, p + Len(old)), old, new)

\* the characters str.strip() removes (a sample of Python's whitespace)
Whitespace == {" ", "\t", "\n", "\r"}

RECURSIVE LStrip(_)
LStrip(s) ==
    IF s # <<>> /\ Head(s) \in Whitespace THEN LStrip(Tail(s)) ELSE s

RECURSIVE RStrip(_)
RStrip(s) ==
    IF s # <<>> /\ s[Len(s)] \in Whitespace THEN RStrip(SubSeq(s, 1, Len(s) - 1)) ELSE s

\* str.strip()
Strip(s) == RStrip(LStrip(s))

\* str.splitlines(), for the line boundary "\n"
RECURSIVE SplitLines(_)
SplitLines(s) ==
    IF s = <<>> THEN <<>>
    ELSE LET p == Find(s, <<"\n">>)
         IN  IF p = 0 THEN <<s>>
             ELSE <<SubSeq(s, 1, p - 1)>> \o SplitLines(From(s, p + 1))

\* s[:n] for the result n of a 0-based str.find: n = -1 drops the last character
PySliceTo(s, n) ==
    IF n >= 0 THEN SubSeq(s, 1, IF n < Len(s) THEN n ELSE Len(s))
    ELSE SubSeq(s, 1, Len(s) - 1)

(***************************************************************************)
(* dict helpers                                                            *)
(***************************************************************************)
DictKeys(d) == {d[i][1] : i \in 1..Len(d)}

\* d[k], k a key of d
DictGet(d, k) == d[CHOOSE i \in 1..Len(d) : d[i][1] = k][2]

\* d[k] = v: a new key goes last, an existing key keeps its place
DictSet(d, k, v) ==
    IF k \in DictKeys(d)
    THEN [i \in 1..Len(d) |-> IF d[i][1] = k THEN <<k, v>> ELSE d[i]]
    ELSE Append(d, <<k, v>>)

(***************************************************************************)
(* The markdown renderer's escaping of literal code, and hilite_code.      *)
(***************************************************************************)
\* what the fenced_code extension of MARKDOWN does to the text of a code block
Escape(code) ==
    Replace(Replace(Replace(Replace(code,
        <<"&">>, <<"&","a","m","p",";">>),
        <<"<">>, <<"&","l","t",";">>),
        <<">">>, <<"&","g","t",";">>),
        <<"\"">>, <<"&","q","u","o","t",";">>)

\* hilite_code, lines 46-49: the text handed to the lexer
Decode(code) ==
    Replace(Replace(Replace(Replace(code,
        <<"&","a","m","p",";">>, <<"&">>),
        <<"&","l","t",";">>, <<"<">>),
        <<"&","g","t",";">>, <<">">>),
        <<"&","q","u","o","t",";">>, <<"\"">>)

\* the languages get_lexer_by_name knows (a sample); any other name raises
KnownLanguages == {<<"p","y","t","h","o","n">>, <<"c">>}

\* the formatter's escaping of the highlighted text
HtmlEscape(code) ==
    Replace(Replace(Replace(code,
        <<"&">>, <<"&","a","m","p",";">>),
        <<"<">>, <<"&","l","t",";">>),
        <<">">>, <<"&","g","t",";">>)

\* highlight(code, lexer, PYGMENTS_HTML_FORMATTER): the lexer strips the code
\* (stripall=True); the token spans of the formatter are left out
Highlight(code) ==
    <<"<","d","i","v"," ","c","l","a","s","s","=","\"","h","i","g","h","l","i","g","h","t","\"",">","<","p","r","e",">">> \o HtmlEscape(Strip(code)) \o <<"<","/","p","r","e",">","<","/","d","i","v",">">>

LowerAlpha ==
    {"a","b","c","d","e","f","g","h","i","j","k","l","m",
     "n","o","p","q","r","s","t","u","v","w","x","y","z"}

CODE_PREFIX == <<"<","p","r","e",">","<","c","o","d","e"," ","c","l","a","s","s","=","\"","l","a","n","g","u","a","g","e","-">>
CODE_MIDDLE == <<"\"",">">>
CODE_SUFFIX == <<"<","/","c","o","d","e",">","<","/","p","r","e",">">>

\* the length of the run of characters of S that starts at position i
RunLen(s, i, S) ==
    LET Stops == {j \in i..Len(s) : s[j] \notin S}
    IN  IF i > Len(s) THEN 0
        ELSE IF Stops = {} THEN Len(s) - i + 1 ELSE Min(Stops) - i

\* one match of CODE_EXTRACTION_REGEX that starts at position i:
\* [found, lang, code, next], next the position after the match
CodeMatchAt(s, i) ==
    LET l0   == i + Len(CODE_PREFIX)
        n    == IF StartsWithAt(s, i, CODE_PREFIX) THEN RunLen(s, l0, LowerAlpha) ELSE 0
        c0   == l0 + n + Len(CODE_MIDDLE)
        e    == IF n > 0 /\ StartsWithAt(s, l0 + n, CODE_MIDDLE)
                THEN FindFrom(s, CODE_SUFFIX, c0 + 1) ELSE 0
    IN  IF e = 0 THEN [found |-> FALSE, lang |-> <<>>, code |-> <<>>, next |-> i]
        ELSE [found |-> TRUE, lang |-> SubSeq(s, l0, l0 + n - 1),
              code |-> SubSeq(s, c0, e - 1), next |-> e + Len(CODE_SUFFIX)]

\* re.sub(CODE_EXTRACTION_REGEX, hilite_code, out_html) on the rest s of the
\* text, acc the text already produced: [ok, html]; the leftmost match is
\* replaced and the search goes on after it; ok is FALSE when
\* get_lexer_by_name raises for some block
RECURSIVE HiliteFrom(_, _)
HiliteFrom(s, acc) ==
    LET Hits == {i \in 1..Len(s) : CodeMatchAt(s, i).found}
    IN  IF Hits = {} THEN [ok |-> TRUE, html |-> acc \o s]
        ELSE LET i == Min(Hits)
                 m == CodeMatchAt(s, i)
             IN  IF m.lang \notin KnownLanguages
                 THEN [ok |-> FALSE, html |-> <<>>]
                 ELSE HiliteFrom(From(s, m.next),
                                 acc \o SubSeq(s, 1, i - 1) \o Highlight(Decode(m.code)))

HiliteAll(s) == HiliteFrom(s, <<>>)

(***************************************************************************)
(* datetime.strptime(date, "%Y-%m-%dT%H:%M:%S%z").date() and its str().    *)
(***************************************************************************)
Digits == <<"0","1","2","3","4","5","6","7","8","9">>
DigitSet == {Digits[i] : i \in 1..Len(Digits)}

DigitVal(c) == (CHOOSE i \in 1..Len(Digits) : Digits[i] = c) - 1

\* the number written by the digits s
RECURSIVE Num(_)
Num(s) == IF s = <<>> THEN 0 ELSE 10 * Num(SubSeq(s, 1, Len(s) - 1)) + DigitVal(s[Len(s)])

CharAt(s, i) == IF i \in 1..Len(s) THEN s[i] ELSE ""

IsLeap(y) == (y % 4 = 0 /\ y % 100 # 0) \/ y % 400 = 0

DaysIn(y, m) ==
    IF m = 2 THEN (IF IsLeap(y) THEN 29 ELSE 28)
    ELSE IF m \in {4, 6, 9, 11} THEN 30 ELSE 31

\* %z: Z, or a sign, two digits (hours, under 24 for the tzinfo), an optional
\* colon, and two digits (minutes); the optional seconds of an offset are left
\* out
IsOffset(z) ==
    \/ z = <<"Z">>
    \/ /\ Len(z) \in {5, 6}
       /\ z[1] \in {"+", "-"}
       /\ z[2] \in DigitSet /\ z[3] \in DigitSet
       /\ Num(SubSeq(z, 2, 3)) < 24
       /\ (Len(z) = 6 => z[4] = ":")
       /\ z[Len(z) - 1] \in {"0","1","2","3","4","5"}
       /\ z[Len(z)] \in DigitSet

\* the runs of digits of s from position i on, each followed by the next
\* literal of seps (a set: the match ignores case), the last by anything:
\* [ok, fields, next]
RECURSIVE ScanFields(_, _, _, _)
ScanFields(s, i, seps, acc) ==
    LET n == RunLen(s, i, DigitSet)
    IN  IF seps = <<>>
        THEN [ok |-> TRUE, fields |-> Append(acc, SubSeq(s, i, i + n - 1)), next |-> i + n]
        ELSE IF CharAt(s, i + n) \notin Head(seps)
        THEN [ok |-> FALSE, fields |-> acc, next |-> i]
        ELSE ScanFields(s, i + n + 1, Tail(seps), Append(acc, SubSeq(s, i, i + n - 1)))

\* the fields f of a date and its offset z, checked: %Y has four digits, the
\* others one or two, in the ranges datetime accepts, and the day exists (a
\* day written with a leading blank is left out)
ValidFields(f, z) ==
    /\ Len(f[1]) = 4
    /\ \A n \in 2..6 : Len(f[n]) \in {1, 2}
    /\ IsOffset(z)
    /\ Num(f[1]) >= 1
    /\ Num(f[2]) \in 1..12
    /\ Num(f[3]) \in 1..DaysIn(Num(f[1]), Num(f[2]))
    /\ Num(f[4]) \in 0..23
    /\ Num(f[5]) \in 0..59
    /\ Num(f[6]) \in 0..59

\* strptime: each field is the whole run of digits up to the next literal;
\* [ok, y, m, d], ok FALSE when strptime or the date's constructor raises
\* ValueError
Strptime(s) ==
    LET r == ScanFields(s, 1, <<{"-"}, {"-"}, {"T", "t"}, {":"}, {":"}>>, <<>>)
    IN  IF r.ok /\ ValidFields(r.fields, From(s, r.next))
        THEN [ok |-> TRUE, y |-> Num(r.fields[1]), m |-> Num(r.fields[2]),
              d |-> Num(r.fields[3])]
        ELSE [ok |-> FALSE, y |-> 0, m |-> 0, d |-> 0]

\* n written with w digits, zero-padded
RECURSIVE Pad(_, _)
Pad(n, w) == IF w = 0 THEN <<>> ELSE Pad(n \div 10, w - 1) \o <<Digits[(n % 10) + 1]>>

\* str(datetime.date(y, m, d))
DateStr(dt) == Pad(dt.y, 4) \o <<"-">> \o Pad(dt.m, 2) \o <<"-">> \o Pad(dt.d, 2)

(***************************************************************************)
(* Metadata extraction, lines 91-105.                                      *)
(***************************************************************************)
K_filename == <<"f","i","l","e","n","a","m","e">>
K_title == <<"t","i","t","l","e">>
K_date == <<"d","a","t","e">>
K_draft == <<"d","r","a","f","t">>

COMMENT_END == <<"-","-",">">>

\* ParseLine with the last "=" of the line as the delimiter
ParseLine_SplitsAtLast(meta) ==
    LET line == Strip(meta)
        Eqs  == {i \in 1..Len(line) : line[i] = "="}
        p    == IF Eqs = {} THEN 0 ELSE CHOOSE i \in Eqs : \A j \in Eqs : j <= i
    IN  IF p = 0 THEN [ok |-> FALSE, key |-> <<>>, value |-> <<>>]
        ELSE [ok |-> TRUE, key |-> Strip(SubSeq(line, 1, p - 1)),
              value |-> Strip(From(line, p + 1))]

\* meta.strip().split("=", maxsplit=1) followed by the strips of line 100:
\* [ok, key, value]; ok FALSE when the line has no "=" (the unpacking raises)
ParseLine(meta) ==
    LET line == Strip(meta)
        p    == Find(line, <<"=">>)
    IN  IF p = 0 THEN [ok |-> FALSE, key |-> <<>>, value |-> <<>>]
        ELSE [ok |-> TRUE, key |-> Strip(SubSeq(line, 1, p - 1)),
              value |-> Strip(From(line, p + 1))]

\* the loop of lines 95-101 over the lines of the block, from the dict d:
\* [ok, meta]
RECURSIVE ParseLines(_, _)
ParseLines(lines, d) ==
    IF lines = <<>> THEN [ok |-> TRUE, meta |-> d]
    ELSE IF Strip(Head(lines)) = <<>> THEN ParseLines(Tail(lines), d)
    ELSE LET kv == ParseLine(Head(lines))
         IN  IF ~kv.ok THEN [ok |-> FALSE, meta |-> d]
             ELSE ParseLines(Tail(lines), DictSet(d, kv.key, kv.value))

\* the metadata of a block of key = value lines for the post named filename
ParseBlock(filename, block) ==
    ParseLines(SplitLines(block), <<<<K_filename, filename>>>>)

\* ExtractMetadata with the append of line 103 outside the test of line 93
ExtractMetadata_AlwaysFound(filename, html) ==
    LET ix == Find(html, COMMENT_END)
    IN  IF ix = 0
        THEN [ok |-> TRUE, found |-> TRUE,
              meta |-> <<<<K_filename, filename>>>>, body |-> html]
        ELSE LET r == ParseBlock(filename, SubSeq(html, 5, ix - 1))
             IN  [ok |-> r.ok, found |-> TRUE, meta |-> r.meta,
                  body |-> From(html, ix + Len(COMMENT_END))]

\* lines 91-105: [ok, found, meta, body]; found is metadata_end_ix != -1,
\* ok FALSE when a line of the block raises
ExtractMetadata(filename, html) ==
    LET ix == Find(html, COMMENT_END)
    IN  IF ix = 0
        THEN [ok |-> TRUE, found |-> FALSE,
              meta |-> <<<<K_filename, filename>>>>, body |-> html]
        ELSE LET r == ParseBlock(filename, SubSeq(html, 5, ix - 1))
             IN  [ok |-> r.ok, found |-> TRUE, meta |-> r.meta,
                  body |-> From(html, ix + Len(COMMENT_END))]

(***************************************************************************)
(* Templates and their rendering, lines 24-35 and 106-116.                 *)
(***************************************************************************)
\* ./templates/html_template.html
HTML_TEMPLATE == <<"<","t","i","t","l","e",">","{","{","t","i","t","l","e","}","}","<","/","t","i","t","l","e",">","{","{","C","O","N","T","E","N","T","}","}">>
\* ./templates/single_post.html
SINGLE_POST_TEMPLATE == <<"{","{","e","x","i","s","t","s",":","d","a","t","e","}","}","<","i",">","{","{","d","a","t","e","}","}","<","/","i",">","{","{","e","x","i","s","t","s",":","d","a","t","e",":","e","n","d","}","}","{","{","C","O","N","T","E","N","T","}","}">>
\* ./templates/index.html
INDEX_PAGE_TEMPLATE == <<"{","{","P","O","S","T","S","}","}","{","{","P","R","O","J","E","C","T","S","}","}">>

P_CONTENT == <<"{","{","C","O","N","T","E","N","T","}","}">>
EXISTS_OPEN == <<"{","{","e","x","i","s","t","s",":">>
EXISTS_END == <<":","e","n","d","}","}">>
BRACES_CLOSE == <<"}","}">>
BRACES_OPEN == <<"{","{">>

NameChars == LowerAlpha \cup DigitSet \cup {"_"} \cup
    {"A","B","C","D","E","F","G","H","I","J","K","L","M",
     "N","O","P","Q","R","S","T","U","V","W","X","Y","Z"}

\* one match of r"{{exists:([a-zA-Z0-9_]+)}}" that starts at position i: the
\* length of the name, 0 if there is no match
CondVarAt(page, i) ==
    LET n0 == i + Len(EXISTS_OPEN)
        n  == IF StartsWithAt(page, i, EXISTS_OPEN) THEN RunLen(page, n0, NameChars) ELSE 0
    IN  IF n > 0 /\ StartsWithAt(page, n0 + n, BRACES_CLOSE) THEN n ELSE 0

\* re.findall(r"{{exists:([a-zA-Z0-9_]+)}}", page): the names, in order
RECURSIVE FindCondVars(_, _)
FindCondVars(page, acc) ==
    LET Hits == {i \in 1..Len(page) : CondVarAt(page, i) > 0}
    IN  IF Hits = {} THEN acc
        ELSE LET i  == Min(Hits)
                 n0 == i + Len(EXISTS_OPEN)
                 n  == CondVarAt(page, i)
             IN  FindCondVars(From(page, n0 + n + Len(BRACES_CLOSE)),
                              Append(acc, SubSeq(page, n0, n0 + n - 1)))

\* lines 33-35
conditional_variables ==
    FindCondVars(HTML_TEMPLATE, <<>>) \o FindCondVars(SINGLE_POST_TEMPLATE, <<>>)
        \o FindCondVars(INDEX_PAGE_TEMPLATE, <<>>)

CondOpen(cvar) == EXISTS_OPEN \o cvar \o BRACES_CLOSE
CondEnd(cvar) == EXISTS_OPEN \o cvar \o EXISTS_END

\* the end of the match of the regex of line 115 that starts at position i:
\* the opening marker, the shortest non-empty run of any characters, the end
\* marker; the position of the end marker, 0 if there is no match
CondMatchAt(s, i, cvar) ==
    IF StartsWithAt(s, i, CondOpen(cvar))
    THEN FindFrom(s, CondEnd(cvar), i + Len(CondOpen(cvar)) + 1)
    ELSE 0

\* re.sub of lines 115-116 for one cvar on the rest s of the text, acc the
\* text already produced: the leftmost match is replaced, by group 1 or by ""
\* (conditional_render), and the search goes on after it
RECURSIVE CondSubFrom(_, _, _, _)
CondSubFrom(s, cvar, variable_exists, acc) ==
    LET Hits == {i \in 1..Len(s) : CondMatchAt(s, i, cvar) > 0}
    IN  IF Hits = {} THEN acc \o s
        ELSE LET i == Min(Hits)
                 e == CondMatchAt(s, i, cvar)
                 kept == IF variable_exists
                         THEN SubSeq(s, i + Len(CondOpen(cvar)), e - 1) ELSE <<>>
             IN  CondSubFrom(From(s, e + Len(CondEnd(cvar))), cvar, variable_exists,
                             acc \o SubSeq(s, 1, i - 1) \o kept)

\* CondSub with a conditional_render that keeps group 1 whatever the metadata
CondSub_AlwaysKeeps(s, cvar, variable_exists) == CondSubFrom(s, cvar, TRUE, <<>>)

CondSub(s, cvar, variable_exists) == CondSubFrom(s, cvar, variable_exists, <<>>)

\* the loop of lines 114-116
RECURSIVE RenderConditionals(_, _, _)
RenderConditionals(html, cvars, meta) ==
    IF cvars = <<>> THEN html
    ELSE RenderConditionals(CondSub(html, Head(cvars), Head(cvars) \in DictKeys(meta)),
                            Tail(cvars), meta)

\* the loop of lines 109-112 over the items of the dict
RECURSIVE SubstituteKeys(_, _)
SubstituteKeys(html, items) ==
    IF items = <<>> THEN html
    ELSE LET key   == Head(items)[1]
             v     == Head(items)[2]
             value == IF key = K_date THEN PySliceTo(v, Find(v, <<"T">>) - 1) ELSE v
         IN  SubstituteKeys(Replace(html, BRACES_OPEN \o key \o BRACES_CLOSE, value),
                            Tail(items))

\* lines 106-116: the page of a post from its body and its metadata
RenderPage(body, meta) ==
    LET in_post  == Replace(SINGLE_POST_TEMPLATE, P_CONTENT, body)
        in_shell == Replace(HTML_TEMPLATE, P_CONTENT, in_post)
    IN  RenderConditionals(SubstituteKeys(in_shell, meta), conditional_variables, meta)

(***************************************************************************)
(* build_posts, lines 130-141.                                             *)
(***************************************************************************)
V_false == <<"f","a","l","s","e">>

\* line 139
ListItem(date, filename, title) ==
    <<"<","l","i",">","<","s","p","a","n",">">> \o date \o <<"<","/","s","p","a","n",">","&","n","b","s","p",";","<","a"," ","h","r","e","f","=","\"">> \o filename
        \o <<"\"",">">> \o title \o <<"<","/","a",">","<","/","l","i",">">>

\* BuildPost without the test of line 138
BuildPost_ListsDrafts(post) ==
    LET filename == <<"/","p","o","s","t","s","/">> \o DictGet(post, K_filename)
        dt       == Strptime(DictGet(post, K_date))
    IN  IF K_title \notin DictKeys(post) \/ K_date \notin DictKeys(post) THEN
            [ok |-> FALSE, html |-> <<>>]
        ELSE IF ~dt.ok \/ K_draft \notin DictKeys(post) THEN
            [ok |-> FALSE, html |-> <<>>]
        ELSE [ok |-> TRUE, html |-> ListItem(DateStr(dt), filename, DictGet(post, K_title))]

\* the loop body of lines 133-139 for one post: [ok, html]; ok FALSE when a
\* key is missing (KeyError) or strptime raises
BuildPost(post) ==
    LET filename == <<"/","p","o","s","t","s","/">> \o DictGet(post, K_filename)
        dt       == Strptime(DictGet(post, K_date))
    IN  IF K_title \notin DictKeys(post) \/ K_date \notin DictKeys(post) THEN
            [ok |-> FALSE, html |-> <<>>]
        ELSE IF ~dt.ok \/ K_draft \notin DictKeys(post) THEN
            [ok |-> FALSE, html |-> <<>>]
        ELSE IF DictGet(post, K_draft) = V_false THEN
            [ok |-> TRUE, html |-> ListItem(DateStr(dt), filename, DictGet(post, K_title))]
        ELSE [ok |-> TRUE, html |-> <<>>]

\* the loop of line 132, acc the output so far
RECURSIVE BuildPostsFrom(_, _)
BuildPostsFrom(all_posts, acc) ==
    IF all_posts = <<>> THEN [ok |-> TRUE, html |-> acc]
    ELSE LET one == BuildPost(Head(all_posts))
         IN  IF ~one.ok THEN one
             ELSE BuildPostsFrom(Tail(all_posts), acc \o one.html)

\* build_posts(all_posts): [ok, html]
build_posts(all_posts) ==
    LET r == BuildPostsFrom(all_posts, <<>>)
    IN  [ok |-> r.ok, html |-> <<"<","u","l",">">> \o r.html \o <<"<","/","u","l",">">>]

(***************************************************************************)
(* build_projects and the index page, lines 144-191.                       *)
(***************************************************************************)
\* the first two of the six records of ALL_PROJECTS
ALL_PROJECTS == <<
    [title |-> <<"v","i","s","u","a","l","i","z","a","t","i","o","n","s"," ","w","i","t","h"," ","c","a","n","v","a","s"," ","a","p","i">>,
     url   |-> <<"h","t","t","p","s",":","/","/","r","h","a","e","g","u","a","r","d",".","g","i","t","h","u","b",".","i","o","/","v","i","s","u","a","l","i","z","a","t","i","o","n","s","/">>],
    [title |-> <<"p","h","o","n","t"," ","-"," ","r","e","n","d","e","r","i","n","g"," ","t","t","f"," ","f","o","n","t","s"," ","f","r","o","m"," ","s","c","r","a","t","c","h">>,
     url   |-> <<"h","t","t","p","s",":","/","/","g","i","t","h","u","b",".","c","o","m","/","r","h","a","e","g","u","a","r","d","/","p","h","o","n","t">>] >>

RECURSIVE BuildProjectsFrom(_)
BuildProjectsFrom(projects) ==
    IF projects = <<>> THEN <<>>
    ELSE <<"<","l","i",">","<","a"," ","h","r","e","f","=","\"">> \o Head(projects).url \o <<"\"",">">> \o Head(projects).title
            \o <<"<","/","a",">","<","/","l","i",">">> \o BuildProjectsFrom(Tail(projects))

build_projects(projects) == <<"<","u","l",">">> \o BuildProjectsFrom(projects) \o <<"<","/","u","l",">">>

\* lines 186-191
IndexPage(posts_html) ==
    LET index_html == Replace(Replace(INDEX_PAGE_TEMPLATE, <<"{","{","P","O","S","T","S","}","}">>, posts_html),
                              <<"{","{","P","R","O","J","E","C","T","S","}","}">>, build_projects(ALL_PROJECTS))
    IN  Replace(Replace(HTML_TEMPLATE, P_CONTENT, index_html),
                <<"{","{","t","i","t","l","e","}","}">>, <<"r","h","a","e","g","u","a","r","d","'","s"," ","b","l","o","g">>)

(***************************************************************************)
(* The inputs: the posts of ./content/posts, each with the name of its     *)
(* file minus ".md" and the HTML that MARKDOWN.convert renders from it.    *)
(***************************************************************************)
GoodPost ==
    [slug |-> <<"a">>,
     html |-> <<"<","!","-","-","\n","t","i","t","l","e"," ","="," ","A","\n","d","a","t","e"," ","="," ","2","0","2","3","-","0","1","-","0","1","T","1","0",":","0","0",":","0","0","+","0","0",":","0","0","\n","d","r","a","f","t"," ","="," ","f","a","l","s","e","\n","-","-",">","\n","<","p",">","x","<","/","p",">">>]

DraftPost ==
    [slug |-> <<"b">>,
     html |-> <<"<","!","-","-","\n","t","i","t","l","e"," ","="," ","B","\n","d","a","t","e"," ","="," ","2","0","2","3","-","0","2","-","0","1","T","1","0",":","0","0",":","0","0","+","0","0",":","0","0","\n","d","r","a","f","t"," ","="," ","t","r","u","e","\n","-","-",">","\n","<","p",">","x","<","/","p",">">>]

\* no comment at all
PlainPost ==
    [slug |-> <<"c">>, html |-> <<"<","p",">","x","<","/","p",">">>]

\* a metadata line without "="
NoEqualsPost ==
    [slug |-> <<"d">>, html |-> <<"<","!","-","-","\n","t","i","t","l","e"," ","D","\n","-","-",">","\n","<","p",">","x","<","/","p",">">>]

\* a code block tagged with a language no lexer is registered for
UnknownLangPost ==
    [slug |-> <<"e">>,
     html |-> <<"<","!","-","-","\n","t","i","t","l","e"," ","="," ","E","\n","d","a","t","e"," ","="," ","2","0","2","3","-","0","4","-","0","1","T","1","0",":","0","0",":","0","0","+","0","0",":","0","0","\n","d","r","a","f","t"," ","="," ","f","a","l","s","e","\n","-","-",">","\n","<","p","r","e",">","<","c","o","d","e"," ","c","l","a","s","s","=","\"","l","a","n","g","u","a","g","e","-","z","z","\"",">","x","\n","<","/","c","o","d","e",">","<","/","p","r","e",">">>]

\* a code block in a known language, with escaped characters
CodePost ==
    [slug |-> <<"f">>,
     html |-> <<"<","!","-","-","\n","t","i","t","l","e"," ","="," ","F","\n","d","a","t","e"," ","="," ","2","0","2","2","-","1","2","-","3","1","T","2","3",":","5","9",":","5","9","-","0","8",":","0","0","\n","d","r","a","f","t"," ","="," ","f","a","l","s","e","\n","-","-",">","\n","<","p","r","e",">","<","c","o","d","e"," ","c","l","a","s","s","=","\"","l","a","n","g","u","a","g","e","-","p","y","t","h","o","n","\"",">","a"," ","&","l","t",";"," ","b","\n","<","/","c","o","d","e",">","<","/","p","r","e",">">>]

\* a draft with no title
UntitledDraft ==
    [slug |-> <<"g">>,
     html |-> <<"<","!","-","-","\n","d","a","t","e"," ","="," ","2","0","2","3","-","0","3","-","0","1","T","1","0",":","0","0",":","0","0","+","0","0",":","0","0","\n","d","r","a","f","t"," ","="," ","t","r","u","e","\n","-","-",">","\n","<","p",">","x","<","/","p",">">>]

\* a draft whose date has no time
UndatedDraft ==
    [slug |-> <<"h">>,
     html |-> <<"<","!","-","-","\n","t","i","t","l","e"," ","="," ","H","\n","d","a","t","e"," ","="," ","2","0","2","3","-","0","3","-","0","1","\n","d","r","a","f","t"," ","="," ","t","r","u","e","\n","-","-",">","\n","<","p",">","x","<","/","p",">">>]

\* a metadata block that declares the key filename
RenamedPost ==
    [slug |-> <<"i">>,
     html |-> <<"<","!","-","-","\n","f","i","l","e","n","a","m","e"," ","="," ","z","z","\n","t","i","t","l","e"," ","="," ","I","\n","d","a","t","e"," ","="," ","2","0","2","3","-","0","5","-","0","1","T","1","0",":","0","0",":","0","0","+","0","0",":","0","0","\n","d","r","a","f","t"," ","="," ","f","a","l","s","e","\n","-","-",">","\n","<","p",">","x","<","/","p",">">>]

\* no leading comment, a comment later in the body
LateCommentPost ==
    [slug |-> <<"j">>, html |-> <<"<","p",">","k"," ","="," ","v","<","/","p",">","\n","<","!","-","-"," ","n"," ","="," ","1"," ","-","-",">","\n","<","p",">","x","<","/","p",">">>]

\* a date strptime accepts that is not zero-padded
LenientDatePost ==
    [slug |-> <<"k">>,
     html |-> <<"<","!","-","-","\n","t","i","t","l","e"," ","="," ","K","=","1","\n","d","a","t","e"," ","="," ","2","0","2","3","-","3","-","5","T","1",":","0","2",":","0","3","Z","\n","d","r","a","f","t"," ","="," ","f","a","l","s","e","\n","-","-",">","\n","<","p",">","x","<","/","p",">">>]

PostFiles ==
    {GoodPost, DraftPost, PlainPost, NoEqualsPost, UnknownLangPost, CodePost,
     UntitledDraft, UndatedDraft, RenamedPost, LateCommentPost, LenientDatePost}

\* the results glob can give: up to MaxPosts distinct files, in any order
GlobResults ==
    {ps \in SeqsUpTo(PostFiles, MaxPosts) :
        \A m, n \in 1..Len(ps) : m # n => ps[m] # ps[n]}

(***************************************************************************)
(* The build: the state of the script.                                     *)
(***************************************************************************)
VARIABLES
    posts,           \* glob.glob("./content/posts/*.md"), rendered
    idx,             \* the position of the loop of line 81 in posts
    pc,              \* the statement the script is at
    out_html,        \* the local out_html of the loop
    post_metadata,   \* the local post_metadata of the loop
    posts_metadata,  \* the module-level list
    applied,         \* the steps applied so far to the post in hand, in order
    posts_list,      \* the local posts of line 184
    files,           \* the files under ./build written so far: path -> content
    arg,             \* the input of a function checked on its own
    res              \* its result

vars == <<posts, idx, pc, out_html, post_metadata, posts_metadata, applied,
          posts_list, files, arg, res>>

MAIN_CSS == <<".","/","b","u","i","l","d","/","m","a","i","n",".","c","s","s">>
INDEX_HTML == <<".","/","b","u","i","l","d","/","i","n","d","e","x",".","h","t","m","l">>
PagePath(filename) == <<".","/","b","u","i","l","d","/","p","o","s","t","s","/">> \o filename \o <<"/","i","n","d","e","x",".","h","t","m","l">>

\* open(path, "w+") ... write(content)
WriteFile(fs, path, content) ==
    [p \in DOMAIN fs \cup {path} |-> IF p = path THEN content ELSE fs[p]]

NoFiles == [p \in {} |-> <<>>]

\* NextStep with the metadata extracted before the highlighter runs
NextStep_MetadataFirst(step) ==
    CASE step = "convert" -> "metadata"
      [] step = "metadata" -> "hilite"
      [] step = "hilite"  -> "render"

\* the order of the statements of the loop body, lines 87-118
NextStep(step) ==
    CASE step = "convert" -> "hilite"
      [] step = "hilite"  -> "metadata"
      [] step = "metadata" -> "render"

Idle ==
    /\ posts = <<>>
    /\ idx = 1
    /\ out_html = <<>>
    /\ post_metadata = <<>>
    /\ posts_metadata = <<>>
    /\ applied = <<>>
    /\ posts_list = <<>>
    /\ files = NoFiles

Init ==
    /\ posts \in GlobResults
    /\ idx = 1
    /\ pc = "style"
    /\ out_html = <<>>
    /\ post_metadata = <<>>
    /\ posts_metadata = <<>>
    /\ applied = <<>>
    /\ posts_list = <<>>
    /\ files = NoFiles
    /\ arg = <<>>
    /\ res = <<>>

\* lines 55-71: the stylesheet (its text is not modelled)
CompileStyle ==
    /\ pc = "style"
    /\ files' = WriteFile(files, MAIN_CSS, <<".","h","i","g","h","l","i","g","h","t","{","}">>)
    /\ pc' = "posts"
    /\ UNCHANGED <<posts, idx, out_html, post_metadata, posts_metadata, applied,
                   posts_list, arg, res>>

\* lines 82-87: the output file is created (empty) when it is opened, then the
\* markdown is converted
Convert ==
    /\ pc = "posts"
    /\ idx <= Len(posts)
    /\ files' = WriteFile(files, PagePath(posts[idx].slug), <<>>)
    /\ out_html' = posts[idx].html
    /\ applied' = <<"convert">>
    /\ pc' = NextStep("convert")
    /\ UNCHANGED <<posts, idx, post_metadata, posts_metadata, posts_list, arg, res>>

\* line 89
Hilite ==
    /\ pc = "hilite"
    /\ LET r == HiliteAll(out_html)
       IN  IF r.ok
           THEN /\ out_html' = r.html
                /\ applied' = Append(applied, "hilite")
                /\ pc' = NextStep("hilite")
           ELSE /\ pc' = "aborted"
                /\ UNCHANGED <<out_html, applied>>
    /\ UNCHANGED <<posts, idx, post_metadata, posts_metadata, posts_list, files,
                   arg, res>>

\* Metadata with a failure that is caught: the post is skipped and the loop
\* goes on
Metadata_SkipsBadPost ==
    /\ pc = "metadata"
    /\ LET r == ExtractMetadata(posts[idx].slug, out_html)
       IN  IF r.ok
           THEN /\ post_metadata' = r.meta
                /\ posts_metadata' = IF r.found THEN Append(posts_metadata, r.meta)
                                     ELSE posts_metadata
                /\ out_html' = r.body
                /\ applied' = Append(applied, "metadata")
                /\ pc' = NextStep("metadata")
                /\ idx' = idx
           ELSE /\ pc' = "posts"
                /\ idx' = idx + 1
                /\ UNCHANGED <<out_html, post_metadata, posts_metadata, applied>>
    /\ UNCHANGED <<posts, posts_list, files, arg, res>>

\* lines 91-105
Metadata ==
    /\ pc = "metadata"
    /\ LET r == ExtractMetadata(posts[idx].slug, out_html)
       IN  IF r.ok
           THEN /\ post_metadata' = r.meta
                /\ posts_metadata' = IF r.found THEN Append(posts_metadata, r.meta)
                                     ELSE posts_metadata
                /\ out_html' = r.body
                /\ applied' = Append(applied, "metadata")
                /\ pc' = NextStep("metadata")
           ELSE /\ pc' = "aborted"
                /\ UNCHANGED <<out_html, post_metadata, posts_metadata, applied>>
    /\ UNCHANGED <<posts, idx, posts_list, files, arg, res>>

\* lines 106-119
Render ==
    /\ pc = "render"
    /\ out_html' = RenderPage(out_html, post_metadata)
    /\ files' = WriteFile(files, PagePath(posts[idx].slug), out_html')
    /\ applied' = Append(applied, "render")
    /\ idx' = idx + 1
    /\ pc' = "posts"
    /\ UNCHANGED <<posts, post_metadata, posts_metadata, posts_list, arg, res>>

\* lines 122-127: the images of ./static (not modelled) are re-encoded
MoveStatic ==
    /\ pc = "posts"
    /\ idx > Len(posts)
    /\ pc' = "index"
    /\ UNCHANGED <<posts, idx, out_html, post_metadata, posts_metadata, applied,
                   posts_list, files, arg, res>>

\* lines 183-193: index.html is created (empty) when it is opened; it stays
\* empty when build_posts raises
BuildIndex ==
    /\ pc = "index"
    /\ LET r == build_posts(posts_metadata)
       IN  IF r.ok
           THEN /\ posts_list' = r.html
                /\ files' = WriteFile(files, INDEX_HTML, IndexPage(r.html))
                /\ pc' = "done"
           ELSE /\ files' = WriteFile(files, INDEX_HTML, <<>>)
                /\ pc' = "aborted"
                /\ UNCHANGED posts_list
    /\ UNCHANGED <<posts, idx, out_html, post_metadata, posts_metadata, applied,
                   arg, res>>

Next ==
    \/ CompileStyle
    \/ Convert
    \/ Hilite
    \/ Metadata
    \/ Render
    \/ MoveStatic
    \/ BuildIndex

Spec == Init /\ [][Next]_vars

(***************************************************************************)
(* The metadata parser on its own: every block of up to MaxMetaLen         *)
(* characters over MetaChars, for a post named "a".                        *)
(***************************************************************************)
MetaChars == {"k", "=", " ", "\n"}

MetaBlocks == SeqsUpTo(MetaChars, MaxMetaLen)

\* the mapping written back as key = value lines, in the form of the block
RECURSIVE Serialize(_)
Serialize(meta) ==
    IF meta = <<>> THEN <<>>
    ELSE Head(meta)[1] \o <<" ","="," ">> \o Head(meta)[2] \o <<"\n">> \o Serialize(Tail(meta))

InitMeta ==
    /\ Idle
    /\ pc = "block"
    /\ arg \in MetaBlocks
    /\ res = <<>>

\* lines 92-101 on the block arg
ParseMetadataBlock ==
    /\ pc = "block"
    /\ LET r == ParseBlock(<<"a">>, arg)
       IN  IF r.ok
           THEN /\ post_metadata' = r.meta
                /\ pc' = "parsed"
           ELSE /\ pc' = "aborted"
                /\ UNCHANGED post_metadata
    /\ UNCHANGED <<posts, idx, out_html, posts_metadata, applied, posts_list,
                   files, arg, res>>

\* the mapping is written back as a block, and lines 92-101 run on that
ParseSerialized ==
    /\ pc = "parsed"
    /\ LET r == ParseBlock(<<"a">>, Serialize(post_metadata))
       IN  /\ res' = r.meta
           /\ pc' = IF r.ok THEN "reparsed" ELSE "aborted"
    /\ UNCHANGED <<posts, idx, out_html, post_metadata, posts_metadata, applied,
                   posts_list, files, arg>>

NextMeta == ParseMetadataBlock \/ ParseSerialized

SpecMeta == InitMeta /\ [][NextMeta]_vars

(***************************************************************************)
(* The escaping of a code block and hilite_code's decoding on their own:   *)
(* every literal code text of up to MaxCodeLen characters over CodeChars.  *)
(***************************************************************************)
CodeChars == {"&", "<", "l", "t", ";"}

CodeTexts == SeqsUpTo(CodeChars, MaxCodeLen)

InitCode ==
    /\ Idle
    /\ pc = "code"
    /\ arg \in CodeTexts
    /\ res = <<>>

\* line 87: the renderer escapes the literal code arg of a fenced block
RenderCode ==
    /\ pc = "code"
    /\ out_html' = Escape(arg)
    /\ pc' = "escaped"
    /\ UNCHANGED <<posts, idx, post_metadata, posts_metadata, applied, posts_list,
                   files, arg, res>>

\* lines 44-51: res is the text hilite_code hands to the lexer
DecodeCode ==
    /\ pc = "escaped"
    /\ res' = Decode(out_html)
    /\ pc' = "lexed"
    /\ UNCHANGED <<posts, idx, out_html, post_metadata, posts_metadata, applied,
                   posts_list, files, arg>>

NextCode == RenderCode \/ DecodeCode

SpecCode == InitCode /\ [][NextCode]_vars

(***************************************************************************)
(* The conditional blocks on their own: every page of up to MaxPageLen     *)
(* tokens (an opening or an end marker of x or y, or a character), for     *)
(* every metadata that has or lacks x and y.                               *)
(***************************************************************************)
CondNames == {<<"x">>, <<"y">>}

PageTokens ==
    [kind : {"open", "end"}, name : CondNames] \cup [kind : {"text"}, name : {<<"a">>, <<"\n">>}]

\* the text of a token
TokenText(t) ==
    CASE t.kind = "open" -> CondOpen(t.name)
      [] t.kind = "end"  -> CondEnd(t.name)
      [] t.kind = "text" -> t.name

RECURSIVE PageText(_)
PageText(tokens) ==
    IF tokens = <<>> THEN <<>> ELSE TokenText(Head(tokens)) \o PageText(Tail(tokens))

CondMetas ==
    { <<<<K_filename, <<"a">>>>>>,
      <<<<K_filename, <<"a">>>>, <<<<"x">>, <<"1">>>>>>,
      <<<<K_filename, <<"a">>>>, <<<<"y">>, <<"1">>>>>>,
      <<<<K_filename, <<"a">>>>, <<<<"x">>, <<"1">>>>, <<<<"y">>, <<"1">>>>>> }

InitCond ==
    /\ Idle
    /\ pc = "page"
    /\ arg \in SeqsUpTo(PageTokens, MaxPageLen)
    /\ res = <<>>

\* lines 33-35 and 114-116 on the page arg, for each metadata
RenderConditionalBlocks ==
    /\ pc = "page"
    /\ \E m \in CondMetas :
          /\ post_metadata' = m
          /\ out_html' = RenderConditionals(PageText(arg),
                                            FindCondVars(PageText(arg), <<>>), m)
    /\ pc' = "rendered"
    /\ UNCHANGED <<posts, idx, posts_metadata, applied, posts_list, files, arg, res>>

NextCond == RenderConditionalBlocks

SpecCond == InitCond /\ [][NextCond]_vars

(***************************************************************************)
(* Properties.                                                             *)
(***************************************************************************)
\* the number of places at which p occurs in s
Occurrences(s, p) == Cardinality({i \in 1..Len(s) : StartsWithAt(s, i, p)})

HasDraftFalse(m) == K_draft \in DictKeys(m) /\ DictGet(m, K_draft) = V_false

HasComment(post) == Contains(post.html, COMMENT_END)

\* the posts whose processing is complete
Processed == 1..(idx - 1)

\* ---------------------------------------------------------------- C1
\* the fields of a date part, split at "-"
C1_Fields(part) ==
    LET p1 == Find(part, <<"-">>)
        p2 == FindFrom(part, <<"-">>, p1 + 1)
    IN  <<SubSeq(part, 1, p1 - 1), SubSeq(part, p1 + 1, p2 - 1), From(part, p2 + 1)>>

C1_TwoDigits(f) == IF Len(f) = 1 THEN <<"0">> \o f ELSE f

\* the date part YYYY-MM-DD of a date: the text before the time designator,
\* month and day written with two digits
C1_DatePart(date) ==
    LET t == Min({n \in 1..Len(date) : date[n] \in {"T", "t"}})
        f == C1_Fields(SubSeq(date, 1, t - 1))
    IN  f[1] \o <<"-">> \o C1_TwoDigits(f[2]) \o <<"-">> \o C1_TwoDigits(f[3])

C1_Listed == SelectSeq(posts_metadata, HasDraftFalse)

C1_Entry(m) ==
    ListItem(C1_DatePart(DictGet(m, K_date)), <<"/","p","o","s","t","s","/">> \o DictGet(m, K_filename),
             DictGet(m, K_title))

\* C1: when the index is built, its post list is, in the order of
\* posts_metadata, one <li> entry for each post whose draft is "false" and
\* nothing for any other post, and each entry shows the date part of the
\* post's date; the list is what index.html holds.
C1_IndexList ==
    pc = "done" =>
        /\ posts_list = <<"<","u","l",">">>
                \o Concat([j \in 1..Len(C1_Listed) |-> C1_Entry(C1_Listed[j])])
                \o <<"<","/","u","l",">">>
        /\ Occurrences(posts_list, <<"<","l","i",">">>) = Len(C1_Listed)
        /\ Contains(files[INDEX_HTML], posts_list)

\* the example of the specification: a post of 2023-01-01 (draft false) and
\* one of 2023-02-01 (draft true) give one entry, showing 2023-01-01
C1_Witness ==
    /\ pc = "done"
    /\ posts = <<GoodPost, DraftPost>>
    /\ Occurrences(posts_list, <<"<","l","i",">">>) = 1
    /\ Contains(posts_list, <<"<","l","i",">","<","s","p","a","n",">","2","0","2","3","-","0","1","-","0","1","<","/","s","p","a","n",">">>)

\* ---------------------------------------------------------------- C2
\* C2: a post in which no comment is found is never appended to
\* posts_metadata and has no entry in the index list, its page is written all
\* the same, and its metadata holds no key but the derived filename.
C2_NoCommentPost ==
    /\ pc = "posts" =>
          Len(posts_metadata) = Cardinality({j \in Processed : HasComment(posts[j])})
    /\ \A j \in Processed :
          ~HasComment(posts[j]) =>
              /\ PagePath(posts[j].slug) \in DOMAIN files
              /\ Contains(files[PagePath(posts[j].slug)], HiliteAll(posts[j].html).html)
              /\ (pc = "posts" /\ idx = j + 1) =>
                     post_metadata = <<<<K_filename, posts[j].slug>>>>
              /\ pc = "done" =>
                     ~Contains(posts_list, <<"h","r","e","f","=","\"","/","p","o","s","t","s","/">> \o posts[j].slug \o <<"\"">>)

C2_Witness ==
    /\ pc = "done"
    /\ posts = <<GoodPost, PlainPost>>
    /\ Len(posts_metadata) = 1
    /\ files[PagePath(PlainPost.slug)] # <<>>

\* ---------------------------------------------------------------- C6
C6_Position(step) ==
    IF \E n \in 1..Len(applied) : applied[n] = step
    THEN CHOOSE n \in 1..Len(applied) : applied[n] = step
    ELSE 0

C7_Fails(post) ==
    \/ ~HiliteAll(post.html).ok
    \/ ~ExtractMetadata(post.slug, HiliteAll(post.html).html).ok

C7_Failing == {j \in 1..Len(posts) : C7_Fails(posts[j])}

\* C7: when the processing of a post fails, the build stops there: the loop
\* never goes past the first failing post, no page of a later post and no
\* index.html is ever written, and main.css and the complete pages of the
\* earlier posts stay as they were written.
C7_AbortAtFailure ==
    C7_Failing # {} =>
        LET f == Min(C7_Failing)
        IN  /\ idx <= f
            /\ pc \notin {"index", "done"}
            /\ INDEX_HTML \notin DOMAIN files
            /\ \A j \in (f + 1)..Len(posts) : PagePath(posts[j].slug) \notin DOMAIN files
            /\ (pc = "aborted") =>
                  /\ idx = f
                  /\ files[MAIN_CSS] # <<>>
                  /\ \A j \in 1..(f - 1) :
                        Contains(files[PagePath(posts[j].slug)], <<"<","t","i","t","l","e",">">>)

C7_Witness ==
    /\ pc = "aborted"
    /\ Len(posts) = 2
    /\ idx = 1
    /\ MAIN_CSS \in DOMAIN files
    /\ PagePath(posts[2].slug) \notin DOMAIN files

\* ---------------------------------------------------------------- C8
\* C8: a post whose rendered output does not begin with a comment has, when
\* its page is rendered, a metadata limited to the derived filename, is not
\* in posts_metadata, and has its whole body.
C8_OnlyLeadingComment ==
    (pc = "render" /\ ~StartsWithAt(posts[idx].html, 1, <<"<","!","-","-">>)) =>
        /\ post_metadata = <<<<K_filename, posts[idx].slug>>>>
        /\ Len(posts_metadata) =
              Cardinality({j \in Processed : StartsWithAt(posts[j].html, 1, <<"<","!","-","-">>)})
        /\ out_html = HiliteAll(posts[idx].html).html

\* ---------------------------------------------------------------- C9
C9_WithMetadata == SelectSeq(posts, HasComment)

\* C9: every listed post is linked as /posts/<slug>, the directory its page
\* was written into.
C9_LinkIsSlug ==
    pc = "done" =>
        \A n \in 1..Len(posts_metadata) :
            HasDraftFalse(posts_metadata[n]) =>
                /\ Contains(posts_list,
                            <<"<","a"," ","h","r","e","f","=","\"","/","p","o","s","t","s","/">> \o C9_WithMetadata[n].slug \o <<"\"",">">>)
                /\ DictGet(posts_metadata[n], K_filename) = C9_WithMetadata[n].slug

\* --------------------------------------------------------------- C10
C10_WellFormed(m) ==
    /\ K_title \in DictKeys(m)
    /\ K_date \in DictKeys(m)
    /\ Strptime(DictGet(m, K_date)).ok

\* C10: once every post is processed, index.html is written whenever all
\* posts whose draft is "false" have a title and a well-formed date, whatever
\* the title and date of the posts with another draft value.
C10_DraftsHarmless ==
    (/\ pc \in {"done", "aborted"}
     /\ idx > Len(posts)
     /\ \A n \in 1..Len(posts_metadata) :
           /\ K_draft \in DictKeys(posts_metadata[n])
           /\ HasDraftFalse(posts_metadata[n]) => C10_WellFormed(posts_metadata[n]))
    => /\ pc = "done"
       /\ files[INDEX_HTML] # <<>>

\* ---------------------------------------------------------------- C3
\* what the blocks of a page mean: the characters of the page that lie only
\* in blocks whose name is a key of the metadata; [ok, out], ok when the page
\* is made of characters and of non-empty, properly nested blocks
RECURSIVE C3_Eval(_, _, _, _)
C3_Eval(tokens, stack, out, opened) ==
    IF tokens = <<>> THEN [ok |-> stack = <<>>, out |-> out]
    ELSE LET t == Head(tokens)
         IN  CASE t.kind = "open" ->
                    C3_Eval(Tail(tokens), Append(stack, t.name), out, TRUE)
               [] t.kind = "end" ->
                    IF stack # <<>> /\ stack[Len(stack)] = t.name /\ ~opened
                    THEN C3_Eval(Tail(tokens), SubSeq(stack, 1, Len(stack) - 1), out, FALSE)
                    ELSE [ok |-> FALSE, out |-> <<>>]
               [] t.kind = "text" ->
                    C3_Eval(Tail(tokens), stack,
                            IF \A n \in 1..Len(stack) : stack[n] \in DictKeys(post_metadata)
                            THEN out \o t.name ELSE out,
                            FALSE)

RECURSIVE C3_NoSelfNesting(_, _)
C3_NoSelfNesting(tokens, stack) ==
    IF tokens = <<>> THEN TRUE
    ELSE LET t == Head(tokens)
         IN  CASE t.kind = "open" ->
                    /\ \A n \in 1..Len(stack) : stack[n] # t.name
                    /\ C3_NoSelfNesting(Tail(tokens), Append(stack, t.name))
               [] t.kind = "end" ->
                    C3_NoSelfNesting(Tail(tokens), SubSeq(stack, 1, Len(stack) - 1))
               [] t.kind = "text" -> C3_NoSelfNesting(Tail(tokens), stack)

C4_NonBlank(line) == Strip(line) # <<>>

\* the lines of the block that are not blank
C4_Lines == SelectSeq(SplitLines(arg), C4_NonBlank)

\* the text before the first "=" of a line, and the text after it, trimmed
C4_KeyOf(line) == Strip(SubSeq(line, 1, Find(line, <<"=">>) - 1))
C4_ValueOf(line) == Strip(From(line, Find(line, <<"=">>) + 1))

\* C4: a block whose non-blank lines all have the form key = value is parsed
\* without failure; the mapping holds, besides the derived filename, exactly
\* the trimmed keys, each with the trimmed value of its last line, the first
\* "=" of a line being the delimiter; and the mapping written back as
\* key = value lines parses to the same mapping.
C4_RoundTrip ==
    (\A n \in 1..Len(C4_Lines) : Contains(C4_Lines[n], <<"=">>)) =>
        /\ pc # "aborted"
        /\ pc \in {"parsed", "reparsed"} =>
              /\ DictKeys(post_metadata) =
                    {K_filename} \cup {C4_KeyOf(C4_Lines[n]) : n \in 1..Len(C4_Lines)}
              /\ DictGet(post_metadata, K_filename) = <<"a">>
              /\ \A n \in 1..Len(C4_Lines) :
                    (\A q \in (n + 1)..Len(C4_Lines) :
                        C4_KeyOf(C4_Lines[q]) # C4_KeyOf(C4_Lines[n]))
                    => DictGet(post_metadata, C4_KeyOf(C4_Lines[n])) = C4_ValueOf(C4_Lines[n])
              /\ \A n \in 1..Len(post_metadata) :
                    /\ post_metadata[n][1] = Strip(post_metadata[n][1])
                    /\ post_metadata[n][2] = Strip(post_metadata[n][2])
                    /\ ~Contains(post_metadata[n][1], <<"=">>)
        /\ pc = "reparsed" => res = post_metadata

\* a line with blanks around its first "=" and a value that holds a "="
C4_Witness ==
    /\ pc = "reparsed"
    /\ arg = <<"k"," ","="," ","k","=">>
    /\ post_metadata = <<<<K_filename, <<"a">>>>, <<<<"k">>, <<"k","=">>>>>>
    /\ res = post_metadata

\* ---------------------------------------------------------------- C5
\* C5: the text hilite_code hands to the lexer is the literal code that the
\* renderer escaped, character for character.
C5_DecodeInvertsEscape ==
    pc = "lexed" => res = arg

====
